---- MODULE Spec2Model ----
(***************************************************************************)
(* A model of rcluster: the cluster lifecycle controller                   *)
(* (rcluster/rcluster.py) and the remote execution helpers                 *)
(* (rcluster/pmkutils.py).                                                 *)
(*                                                                         *)
(* An EC2 instance is identified by its index in inst; the same number     *)
(* stands for its instance id and for its private IP address.  A line of   *)
(* the hostfile ("<private ip>\n") is therefore an instance index.         *)
(***************************************************************************)
EXTENDS Integers, Sequences, FiniteSets, TLC

\* ------------------------------------------------------------------ bounds

\* create_cluster(n_workers): n_workers ranges over 0..MaxWorkers
MaxWorkers == 2
\* number of create_cluster calls made on one controller
MaxCalls == 2
\* longest standard output of a remote command, in characters
MaxText == 3
\* the interpreter's limit on nested calls (sys.getrecursionlimit(), 1000 by
\* default), scaled down
RecursionLimit == 3
\* the number of instances the provider lets the account launch in all
InstanceLimit == 3
\* a local source tree: its files lie at most MaxDepth names below the
\* source directory, and there are at most MaxTreeFiles of them
MaxDepth == 2
MaxTreeFiles == 2
\* the number of transfers a batch put or get is to have in flight at most
\* (10 by default), scaled down
ConcurrencyCap == 2
\* the longest path handed to _unixPath, in characters
MaxPath == 4
\* the number of instances an account holds when a lookup by tag is made
MaxAccount == 2

\* ------------------------------------------------------- program constants

\* rcl.__ver__, the default of RCluster(ver=...)
Ver == "0.2.21"

\* The numbers of processors the instance types in use can have; what
\* `cat /proc/cpuinfo | grep processor | wc -l` prints on an instance.
CpuCounts == {2, 12}

\* --------------------------------------------------------------- variables

VARIABLES
    inst,             \* the provider's instances: Seq of [state, tags]
    rcluster,         \* self.rcluster (<<>>: unset or empty)
    hostfile,         \* self.hostfile, a sequence of lines
    manager_private,  \* self.manager_private (0: unset)
    manager_ssh,      \* self.manager_ssh (0: unset), the instance connected to
    worker_runtime,   \* whether self.worker_runtime is a non-empty command
    manager_runtime,  \* whether self.manager_runtime is a non-empty command
    pc,               \* position of the thread that calls create_cluster
    call,             \* the locals of the create_cluster call in progress
    task,             \* per instance of the call: the _configure_instance frame
    hostfile_lock,    \* the Lock of the call: 0 free, else the holder
    result,           \* how the last create_cluster call ended
    calls,            \* number of create_cluster calls made so far
    hist,             \* what happened during the call (observation only)
    cmd,              \* one pmkCmd / cpuCount call: what the remote side
                      \* produces and how the call ends
    conn,             \* one pmkConnect call: the host, the key, the frames
    last,             \* the last call of get_manager, get_instances or
                      \* terminate_instances and how it ended
    purge,            \* one _ec2_purge call: the account's resources of the
                      \* version and how far the call got
    cfg,              \* one write_config / from_config round trip
    put,              \* one pmkPut call: the local tree and the pairs
    jobs,             \* one batch of file transfers (_thread_jobs)
    xfer,             \* one pmkPutFile call and the remote directories
    ami,              \* one create_ami call, the image and the template
    get,              \* one pmkGet call: the remote source and the pairs
    norm              \* one _unixPath call: the path and what it returns

clusterVars == <<inst, rcluster, hostfile, manager_private, manager_ssh,
                 worker_runtime, manager_runtime, pc, call, task,
                 hostfile_lock, result, calls, hist>>

\* what the calls outside create_cluster leave behind
sideVars == <<xfer, ami, get, norm>>

\* all but one of them
butXfer == <<ami, get, norm>>
butAmi == <<xfer, get, norm>>
butGet == <<xfer, ami, norm>>
butNorm == <<xfer, ami, get>>

offVars == <<purge, cfg, put, jobs, sideVars>>

laterVars == <<last, offVars>>

utilVars == <<cmd, conn, laterVars>>

vars == <<clusterVars, utilVars>>

\* ----------------------------------------------------------------- helpers

Range(s) == {s[j] : j \in 1..Len(s)}

Occurrences(s, x) == Cardinality({j \in 1..Len(s) : s[j] = x})

\* s repeated n times: the str * int of Python
RECURSIVE Repeat(_, _)
Repeat(s, n) == IF n <= 0 THEN <<>> ELSE s \o Repeat(s, n - 1)

RECURSIVE SumOver(_, _)
SumOver(f, S) ==
    IF S = {} THEN 0
    ELSE LET x == CHOOSE y \in S : TRUE IN f[x] + SumOver(f, S \ {x})

\* ------------------------------------------------------ pmkutils: pmkCmd

\* Characters are one-character strings; a text is a sequence of them.
DigitChars == <<"0", "1", "2", "3", "4", "5", "6", "7", "8", "9">>
Newline == "\n"

IsDigit(c) == \E d \in 1..10 : DigitChars[d] = c
DigitValue(c) == (CHOOSE d \in 1..10 : DigitChars[d] = c) - 1
IsSpace(c) == c \in {" ", Newline, "\t"}

\* What wc -l prints for n: the decimal digits of n, then a newline.
RECURSIVE Digits(_)
Digits(n) == IF n < 10 THEN <<n>> ELSE Digits(n \div 10) \o <<n % 10>>

CpuStdout(n) ==
    [j \in 1..Len(Digits(n)) |-> DigitChars[Digits(n)[j] + 1]] \o <<Newline>>

\* stdout.readline(2048): the text up to and including the first newline,
\* at most ReadlineSize characters of it.
ReadlineSize == 2048

FirstNewline(text) ==
    IF \E j \in 1..Len(text) : text[j] = Newline
    THEN CHOOSE j \in 1..Len(text) :
            text[j] = Newline /\ \A k \in 1..(j - 1) : text[k] # Newline
    ELSE Len(text)

Readline(text) ==
    LET n == IF FirstNewline(text) < ReadlineSize
             THEN FirstNewline(text) ELSE ReadlineSize
    IN SubSeq(text, 1, n)

\* lines = []; for line in iter(readline, ""): lines += line
\* A list extended by a str is extended by its characters.
RECURSIVE ReadLines(_)
ReadLines(text) ==
    IF text = <<>> THEN <<>>
    ELSE LET line == Readline(text)
         IN line \o ReadLines(SubSeq(text, Len(line) + 1, Len(text)))

FailedPositive(exit_status) == exit_status > 0

\* if exit_status: (any non-zero status, -1 for "none received" included)
Failed(exit_status) == exit_status # 0

\* str.encode('utf-8') on the characters the model uses: one byte each
Utf8(c) ==
    IF IsDigit(c) THEN 48 + DigitValue(c)
    ELSE CASE c = Newline -> 10
           [] c = " " -> 32
           [] c = "\t" -> 9
           [] c = "b" -> 98
           [] c = "o" -> 111
           [] c = "m" -> 109
           [] c = "x" -> 120
           [] OTHER -> 63

Encode(text) == [j \in 1..Len(text) |-> Utf8(text[j])]

\* pmkCmd(client, call), given what the remote side produces
PmkCmd(stdout, stderr, exit_status) ==
    IF Failed(exit_status)
    THEN [kind |-> "raise", err |-> "Exception", value |-> Encode(stderr)]
    ELSE [kind |-> "return", err |-> "none", value |-> ReadLines(stdout)]

\* int(s) of Python for the texts the model uses: surrounding whitespace is
\* stripped, what is left must be one or more digits.
RECURSIVE Strip(_)
Strip(text) ==
    IF text = <<>> THEN <<>>
    ELSE IF IsSpace(text[1]) THEN Strip(Tail(text))
    ELSE IF IsSpace(text[Len(text)]) THEN Strip(SubSeq(text, 1, Len(text) - 1))
    ELSE text

RECURSIVE DecimalValue(_)
DecimalValue(digits) ==
    IF digits = <<>> THEN 0
    ELSE 10 * DecimalValue(SubSeq(digits, 1, Len(digits) - 1))
         + DigitValue(digits[Len(digits)])

IsInteger(text) ==
    /\ Strip(text) # <<>>
    /\ \A j \in 1..Len(Strip(text)) : IsDigit(Strip(text)[j])

\* cpuCount(client): cpus = pmkCmd(...); cpus = int(cpus[0])
CpuCount(stdout, stderr, exit_status) ==
    LET cpus == PmkCmd(stdout, stderr, exit_status)
    IN IF cpus.kind = "raise" THEN cpus
       ELSE IF cpus.value = <<>>
       THEN [kind |-> "raise", err |-> "IndexError", value |-> <<>>]
       ELSE IF ~IsInteger(<<cpus.value[1]>>)
       THEN [kind |-> "raise", err |-> "ValueError", value |-> <<>>]
       ELSE [kind |-> "return", err |-> "none",
             value |-> DecimalValue(Strip(<<cpus.value[1]>>))]

\* ------------------------------------------------------------ the provider

NoTags == {}
VersionTag == <<"rcluster", Ver>>
ManagerTag == <<Ver, "manager">>

LiveOrNot(state) == TRUE

\* {'Name': 'instance-state-name', 'Values': ['running', 'pending']}
IsLive(state) == state \in {"running", "pending"}

Live(i) == IsLive(inst[i].state)

MinCountOne(n_instances) == 1

\* ec2.create_instances(MinCount=..., MaxCount=...)
MinCount(n_instances) == n_instances
MaxCount(n_instances) == n_instances

\* The instances i of ids get tag t
Tagged(table, ids, t) ==
    [i \in DOMAIN table |->
        IF i \in ids THEN [table[i] EXCEPT !.tags = @ \cup {t}] ELSE table[i]]

\* instance.terminate() on every instance of ids
Terminated(table, ids) ==
    [i \in DOMAIN table |->
        IF i \in ids THEN [table[i] EXCEPT !.state = "terminated"] ELSE table[i]]

\* ec2.instances.filter(InstanceIds=ids): the instances with these ids
InstancesByIds(table, ids) ==
    SelectSeq([i \in 1..Len(table) |-> i], LAMBDA i : i \in ids)

Running(table, ids) ==
    [i \in DOMAIN table |->
        IF i \in ids /\ table[i].state = "pending"
        THEN [table[i] EXCEPT !.state = "running"] ELSE table[i]]

\* {'Name': 'tag-key', 'Values': [k]}: some tag of the instance has key k
HasTagKey(tags, k) == \E t \in tags : t[1] = k

\* {'Name': 'tag-value', 'Values': [v]}: some tag of the instance has value v
HasTagValue(tags, v) == \E t \in tags : t[2] = v

\* ec2.instances.filter(Filters=[tag-key k, tag-value v, running|pending]),
\* listed in the order of the instance ids
InstancesByFilter(table, k, v) ==
    SelectSeq([i \in 1..Len(table) |-> i],
              LAMBDA i : /\ HasTagKey(table[i].tags, k)
                         /\ HasTagValue(table[i].tags, v)
                         /\ IsLive(table[i].state))

\* get_instances(ver), lines 263-274
GetInstancesOf(table, ver) == InstancesByFilter(table, "rcluster", ver)

\* get_manager(ver), lines 240-249: the lookup by tag
ManagerByTag(table, ver) == InstancesByFilter(table, ver, "manager")

\* ------------------------------------------------------------- controller

NoCall == [n |-> 0, want |-> 0, instances |-> <<>>, started |-> 0,
           err |-> "none"]
NoResult == [kind |-> "none", value |-> <<>>, err |-> "none"]
NoHist == [fresh |-> FALSE, failed |-> {}, mgrRan |-> FALSE, mgrCtx |-> <<>>,
           created |-> "none", ran |-> {}]
NoTask == [pc |-> "new", cpus |-> 0, reported |-> 0, tmp |-> <<>>,
           wrote |-> FALSE]

Manager == call.instances[1]
Workers == {call.instances[j] : j \in 2..Len(call.instances)}

ActiveClusterIgnored == FALSE

\* create_cluster, lines 176-177: 'rcluster' in self.__dict__ and self.rcluster
ActiveCluster == rcluster # <<>>

Returned(v) == [kind |-> "returned", value |-> v, err |-> "none"]
Raised(e) == [kind |-> "raised", value |-> <<>>, err |-> e]

NoCmd == [stdout |-> <<>>, stderr |-> <<>>, exit_status |-> 0,
          ran |-> "none", out |-> <<>>]
NoConn == [up |-> TRUE, key |-> "ok", pc |-> "none", stack |-> <<>>,
           err |-> "none", tries |-> 0]

NoLast == [op |-> "none", ver |-> Ver, kind |-> "none", shape |-> "none",
           value |-> <<>>, again |-> FALSE, cleared |-> FALSE]

NoPurge == [pc |-> "none", present |-> {}, fails |-> {}, attempted |-> {},
            deleted |-> {}]
NoSnapshot == [top |-> <<>>, conf |-> <<>>]
NoCfg == [pc |-> "none", attr |-> <<>>, attr_ref |-> "none",
          config |-> <<>>, config_ref |-> "none", heap |-> <<>>,
          file |-> NoSnapshot, saved |-> NoSnapshot, loaded |-> NoSnapshot,
          asked |-> {}]
NoPut == [pc |-> "none", os |-> "posix", kind |-> "missing", tree |-> {},
          send_files |-> <<>>]
NoJobs == [pc |-> "none", func |-> "put", threaded |-> TRUE, n |-> 0,
           started |-> 0, th |-> <<>>, err |-> "none"]

NoXfer == [pc |-> "none", os |-> "posix", dirs |-> {}, target_fn |-> <<>>,
           depth |-> 0, mkdir |-> "none", sent |-> 0, err |-> "none"]
\* self.instance_conf as the constructor leaves it, as far as a launch reads it
InstanceConf == [ImageId |-> "ami-0", InstanceType |-> "m4.xlarge"]
NoAmi == [pc |-> "none", base_given |-> FALSE, setup_fn |-> FALSE,
          update_image |-> TRUE, terminate |-> TRUE, wait |-> TRUE,
          base |-> "none", launched |-> FALSE, image |-> "none",
          instance_conf |-> InstanceConf, slept |-> FALSE,
          at_return |-> "none", err |-> "none", value |-> "none",
          launches |-> <<>>]
NoGet == [pc |-> "none", os |-> "posix", kind |-> "missing",
          local_isfile |-> FALSE, tree |-> {}, get_files |-> <<>>,
          err |-> "none"]
NoNorm == [pc |-> "none", path |-> <<>>, out |-> <<>>, again |-> <<>>]

SideQuiet ==
    /\ xfer = NoXfer
    /\ ami = NoAmi
    /\ get = NoGet
    /\ norm = NoNorm

LaterQuiet ==
    /\ SideQuiet
    /\ last = NoLast
    /\ purge = NoPurge
    /\ cfg = NoCfg
    /\ put = NoPut
    /\ jobs = NoJobs

ClusterInit ==
    /\ inst = <<>>
    /\ rcluster = <<>>
    /\ hostfile = <<>>
    /\ manager_private = 0
    /\ manager_ssh = 0
    /\ worker_runtime \in BOOLEAN
    /\ manager_runtime \in BOOLEAN
    /\ pc = "idle"
    /\ call = NoCall
    /\ task = <<>>
    /\ hostfile_lock = 0
    /\ result = NoResult
    /\ calls = 0
    /\ hist = NoHist

\* a controller with no startup command configured
ClusterQuiet ==
    /\ ClusterInit
    /\ ~worker_runtime
    /\ ~manager_runtime

\* the controller is new and no call of the other groups was made
OthersQuiet ==
    /\ ClusterQuiet
    /\ cmd = NoCmd
    /\ conn = NoConn
    /\ last = NoLast
    /\ purge = NoPurge
    /\ cfg = NoCfg
    /\ put = NoPut
    /\ jobs = NoJobs

Init ==
    /\ ClusterInit
    /\ LaterQuiet
    /\ cmd = NoCmd
    /\ conn = NoConn

\* create_cluster is called with n_workers = n.
CreateCluster(n) ==
    /\ UNCHANGED <<cmd, conn, offVars>>
    /\ last' = NoLast
    /\ pc = "idle"
    /\ calls < MaxCalls
    /\ calls' = calls + 1
    /\ IF ActiveCluster
       THEN /\ result' = Returned(rcluster)
            /\ hist' = NoHist
            /\ UNCHANGED <<inst, rcluster, hostfile, manager_private,
                           manager_ssh, worker_runtime, manager_runtime, pc,
                           call, task, hostfile_lock>>
       ELSE /\ pc' = "create_instances"
            /\ call' = [NoCall EXCEPT !.n = n, !.want = n + 1]
            /\ task' = <<>>
            /\ result' = NoResult
            /\ hist' = [NoHist EXCEPT !.fresh = TRUE]
            /\ UNCHANGED <<inst, rcluster, hostfile, manager_private,
                           manager_ssh, worker_runtime, manager_runtime,
                           hostfile_lock>>

\* ---------------------------------------- create_instances (lines 142-165)

\* ec2.create_instances(...): the provider launches between MinCount and
\* MaxCount instances, as far as the account's limit allows, or none at all
\* and the request fails.
CI_Launch ==
    /\ UNCHANGED utilVars
    /\ pc = "create_instances"
    /\ \/ /\ pc' = "idle"
          /\ result' = Raised("LaunchError")
          /\ hist' = [hist EXCEPT !.created = "raised"]
          /\ UNCHANGED <<inst, call>>
       \/ \E k \in MinCount(call.want)..MaxCount(call.want) :
          /\ k >= 1
          /\ Len(inst) + k <= InstanceLimit
          /\ inst' = inst \o [j \in 1..k |-> [state |-> "pending",
                                               tags |-> NoTags]]
          /\ call' = [call EXCEPT
                        !.instances = [j \in 1..k |-> Len(inst) + j]]
          /\ pc' = "wait_until_running"
          /\ UNCHANGED <<result, hist>>
    /\ UNCHANGED <<rcluster, hostfile, manager_private, manager_ssh,
                   worker_runtime, manager_runtime, task, hostfile_lock,
                   calls>>

\* instances[0].wait_until_running(); sleep(5)
CI_Wait ==
    /\ UNCHANGED utilVars
    /\ pc = "wait_until_running"
    /\ \/ /\ inst' = Running(inst, Range(call.instances))
          /\ pc' = "create_tags"
          /\ UNCHANGED <<result, hist>>
       \/ /\ pc' = "idle"
          /\ result' = Raised("WaiterError")
          /\ hist' = [hist EXCEPT !.created = "raised"]
          /\ UNCHANGED inst
    /\ UNCHANGED <<rcluster, hostfile, manager_private, manager_ssh,
                   worker_runtime, manager_runtime, call, task,
                   hostfile_lock, calls>>

\* The tagging loop and the return: the first j instances are tagged; with
\* j short of all of them, create_tags raised on the next one.
CI_Tags ==
    /\ UNCHANGED utilVars
    /\ pc = "create_tags"
    /\ \E j \in 0..Len(call.instances) :
        /\ inst' = Tagged(inst, {call.instances[m] : m \in 1..j}, VersionTag)
        /\ IF j = Len(call.instances)
           THEN /\ pc' = "prepare"
                /\ call' = [call EXCEPT !.instances =
                              InstancesByIds(inst, Range(call.instances))]
                /\ hist' = [hist EXCEPT !.created = "returned"]
                /\ UNCHANGED result
           ELSE /\ pc' = "idle"
                /\ result' = Raised("TagError")
                /\ hist' = [hist EXCEPT !.created = "raised"]
                /\ UNCHANGED call
    /\ UNCHANGED <<rcluster, hostfile, manager_private, manager_ssh,
                   worker_runtime, manager_runtime, task, hostfile_lock,
                   calls>>

\* ------------------------------------------ create_cluster (lines 183-211)

\* Lines 184-191: the manager is tagged, manager_private and hostfile are
\* set, the lock of this call is made.
CC_Prepare ==
    /\ UNCHANGED utilVars
    /\ pc = "prepare"
    /\ \/ /\ inst' = Tagged(inst, {Manager}, ManagerTag)
          /\ manager_private' = Manager
          /\ hostfile' = <<>>
          /\ hostfile_lock' = 0
          /\ task' = [i \in Range(call.instances) |-> NoTask]
          /\ pc' = "start_workers"
          /\ UNCHANGED call
       \/ /\ pc' = "except"
          /\ call' = [call EXCEPT !.err = "TagError"]
          /\ UNCHANGED <<inst, manager_private, hostfile, hostfile_lock, task>>
    /\ UNCHANGED <<rcluster, manager_ssh, worker_runtime, manager_runtime,
                   result, calls, hist>>

\* Lines 192-200: the next worker's thread is started.
CC_StartWorker ==
    /\ UNCHANGED utilVars
    /\ pc = "start_workers"
    /\ call.started < Len(call.instances) - 1
    /\ task' = [task EXCEPT ![call.instances[call.started + 2]].pc = "connect"]
    /\ call' = [call EXCEPT !.started = @ + 1]
    /\ UNCHANGED <<inst, rcluster, hostfile, manager_private, manager_ssh,
                   worker_runtime, manager_runtime, pc, hostfile_lock,
                   result, calls, hist>>

EndedOrNot(i) == TRUE

\* Whether a thread has ended: Thread.join returns for it
Ended(i) == task[i].pc \in {"done", "dead"}

\* Lines 201-203: every worker thread is joined, then the manager is
\* configured by the calling thread.
CC_Join ==
    /\ UNCHANGED utilVars
    /\ pc = "start_workers"
    /\ call.started = Len(call.instances) - 1
    /\ \A w \in Workers : Ended(w)
    /\ pc' = "configure_manager"
    /\ task' = [task EXCEPT ![Manager].pc = "connect"]
    /\ UNCHANGED <<inst, rcluster, hostfile, manager_private, manager_ssh,
                   worker_runtime, manager_runtime, call, hostfile_lock,
                   result, calls, hist>>

\* Lines 205-208: every instance is terminated in turn and err is raised
\* again; a terminate() that raises ends the handler with its own error.
CC_Except ==
    /\ UNCHANGED utilVars
    /\ pc = "except"
    /\ \E j \in 0..Len(call.instances) :
        /\ inst' = Terminated(inst, {call.instances[m] : m \in 1..j})
        /\ result' = IF j = Len(call.instances) THEN Raised(call.err)
                     ELSE Raised("TerminateError")
    /\ pc' = "idle"
    /\ UNCHANGED <<rcluster, hostfile, manager_private, manager_ssh,
                   worker_runtime, manager_runtime, call, task,
                   hostfile_lock, calls, hist>>

\* Lines 209-211
CC_ConnectManager ==
    /\ UNCHANGED utilVars
    /\ pc = "connect_manager"
    /\ \/ /\ manager_ssh' = Manager
          /\ rcluster' = call.instances
          /\ result' = Returned(call.instances)
       \/ /\ result' = Raised("ConnectError")
          /\ UNCHANGED <<manager_ssh, rcluster>>
    /\ pc' = "idle"
    /\ UNCHANGED <<inst, hostfile, manager_private, worker_runtime,
                   manager_runtime, call, task, hostfile_lock, calls, hist>>

\* ------------------------------------- _configure_instance (lines 213-220)

\* An exception leaves _configure_instance for instance i.  In the calling
\* thread (the manager's configuration) it reaches the except clause of
\* create_cluster; in a worker's Thread it ends the thread's run() and goes
\* no further: join() returns normally.
Throw(i, e, h) ==
    /\ hist' = [h EXCEPT !.failed = @ \cup {i}]
    /\ IF i = Manager
       THEN /\ pc' = "except"
            /\ call' = [call EXCEPT !.err = e]
            /\ task' = [task EXCEPT ![i].pc = "raised"]
       ELSE /\ task' = [task EXCEPT ![i].pc = "dead"]
            /\ UNCHANGED <<pc, call>>

\* _configure_instance returns for instance i.
Finish(i, h) ==
    /\ hist' = h
    /\ task' = [task EXCEPT ![i].pc = "done"]
    /\ pc' = IF i = Manager THEN "connect_manager" ELSE pc
    /\ UNCHANGED call

\* What the instance may print for the processor count: the count, or
\* nothing at all.
CpuOutputs == {CpuStdout(n) : n \in CpuCounts} \cup {<<>>}

\* Line 215: client = self.connect(instance)
Cfg_Connect(i) ==
    /\ UNCHANGED utilVars
    /\ task[i].pc = "connect"
    /\ \/ /\ task' = [task EXCEPT ![i].pc = "cpu_count"]
          /\ UNCHANGED <<pc, call, hist>>
       \/ Throw(i, "ConnectError", hist)
    /\ UNCHANGED <<inst, rcluster, hostfile, manager_private, manager_ssh,
                   worker_runtime, manager_runtime, hostfile_lock, result,
                   calls>>

\* Line 216: cpus = rcl.cpu_count(client)
Cfg_CpuCount(i) ==
    /\ UNCHANGED utilVars
    /\ task[i].pc = "cpu_count"
    /\ \E out \in CpuOutputs, exit_status \in {0, 1} :
        LET cpus == CpuCount(out, <<>>, exit_status)
        IN IF cpus.kind = "return"
           THEN /\ task' = [task EXCEPT ![i].pc = "acquire",
                                        ![i].cpus = cpus.value,
                                        ![i].reported = DecimalValue(Strip(out))]
                /\ UNCHANGED <<pc, call, hist>>
           ELSE Throw(i, cpus.err, hist)
    /\ UNCHANGED <<inst, rcluster, hostfile, manager_private, manager_ssh,
                   worker_runtime, manager_runtime, hostfile_lock, result,
                   calls>>

CanAcquireUnlocked(i) == TRUE

\* Line 217: with hostfile_lock: blocks until the lock is free
CanAcquire(i) == hostfile_lock = 0

Cfg_Acquire(i) ==
    /\ UNCHANGED utilVars
    /\ task[i].pc = "acquire"
    /\ CanAcquire(i)
    /\ hostfile_lock' = i
    /\ task' = [task EXCEPT ![i].pc = "read"]
    /\ UNCHANGED <<inst, rcluster, hostfile, manager_private, manager_ssh,
                   worker_runtime, manager_runtime, pc, call, result, calls,
                   hist>>

\* Line 218, self.hostfile += ...: the attribute is read,
Cfg_Read(i) ==
    /\ UNCHANGED utilVars
    /\ task[i].pc = "read"
    /\ task' = [task EXCEPT ![i].pc = "write", ![i].tmp = hostfile]
    /\ UNCHANGED <<inst, rcluster, hostfile, manager_private, manager_ssh,
                   worker_runtime, manager_runtime, pc, call, hostfile_lock,
                   result, calls, hist>>

\* the lines of the instance
HostLines(i, cpus) == Repeat(<<i>>, cpus)

\* and the sum is stored.
Cfg_Write(i) ==
    /\ UNCHANGED utilVars
    /\ task[i].pc = "write"
    /\ hostfile' = task[i].tmp \o HostLines(i, task[i].cpus)
    /\ task' = [task EXCEPT ![i].pc = "release", ![i].tmp = <<>>,
                             ![i].wrote = TRUE]
    /\ UNCHANGED <<inst, rcluster, manager_private, manager_ssh,
                   worker_runtime, manager_runtime, pc, call, hostfile_lock,
                   result, calls, hist>>

\* The end of the with block releases the lock.
Cfg_Release(i) ==
    /\ UNCHANGED utilVars
    /\ task[i].pc = "release"
    /\ hostfile_lock' = 0
    /\ task' = [task EXCEPT ![i].pc = "runtime"]
    /\ UNCHANGED <<inst, rcluster, hostfile, manager_private, manager_ssh,
                   worker_runtime, manager_runtime, pc, call, result, calls,
                   hist>>

RuntimeAlways(i) == TRUE

\* The startup command of the role of instance i, if one is configured
Runtime(i) == IF i = Manager THEN manager_runtime ELSE worker_runtime

\* The startup command of instance i is formatted and run; for the
\* manager's, the hostfile it is formatted with
Ran(i) ==
    IF i = Manager
    THEN [hist EXCEPT !.mgrRan = TRUE, !.mgrCtx = hostfile, !.ran = @ \cup {i}]
    ELSE [hist EXCEPT !.ran = @ \cup {i}]

\* Lines 219-220: if runtime: rcl.pmk_cmd(client, runtime.format(...))
Cfg_Runtime(i) ==
    /\ UNCHANGED utilVars
    /\ task[i].pc = "runtime"
    /\ IF Runtime(i)
       THEN \/ Finish(i, Ran(i))
            \/ Throw(i, "RemoteCommandError", Ran(i))
            \/ Throw(i, "KeyError", hist)
       ELSE Finish(i, hist)
    /\ UNCHANGED <<inst, rcluster, hostfile, manager_private, manager_ssh,
                   worker_runtime, manager_runtime, hostfile_lock, result,
                   calls>>

\* --------------------- get_manager, get_instances, terminate_instances
\* Each is called by the thread that calls create_cluster, between two
\* calls of create_cluster (which forgets last), so that last tells of the
\* call that has just ended.  last.again says that the call is a
\* terminate_instances directly after one that returned, last.cleared that
\* a terminate_instances has returned since create_cluster was last called.

CallRecordOf(op, ver, kind, shape, value) ==
    [op |-> op, ver |-> ver, kind |-> kind, shape |-> shape, value |-> value,
     again |-> /\ op = "terminate_instances"
               /\ last.op = "terminate_instances"
               /\ last.kind = "returned",
     cleared |-> \/ op = "terminate_instances" /\ kind = "returned"
                 \/ last.cleared]

\* a call with ver left out: ver = self.ver
CallRecord(op, kind, shape, value) == CallRecordOf(op, Ver, kind, shape, value)

\* get_manager(), lines 232-253: the first instance of the recorded cluster,
\* else the list the lookup by tag returns, else None.
GetManager ==
    /\ pc = "idle"
    /\ last' = IF ActiveCluster
               THEN CallRecord("get_manager", "returned", "instance",
                           <<rcluster[1]>>)
               ELSE IF ManagerByTag(inst, Ver) # <<>>
               THEN CallRecord("get_manager", "returned", "list",
                           ManagerByTag(inst, Ver))
               ELSE CallRecord("get_manager", "returned", "none", <<>>)
    /\ UNCHANGED <<clusterVars, cmd, conn, offVars>>

\* get_instances(ver), lines 263-274
GetInstancesFor(ver) ==
    /\ pc = "idle"
    /\ last' = CallRecordOf("get_instances", ver, "returned", "list",
                            GetInstancesOf(inst, ver))
    /\ UNCHANGED <<clusterVars, cmd, conn, offVars>>

\* get_instances(): ver is self.ver
GetInstances == GetInstancesFor(Ver)

TerminateOutcomesStrict(instances) ==
    {[done |-> j,
      kind |-> IF j = Len(instances) /\ j > 0 THEN "returned" ELSE "raised"] :
     j \in 0..Len(instances)}

\* Lines 281-285: how far the list comprehension of terminate() calls gets
\* and how the call ends; with no instance, a debug message only.
TerminateOutcomes(instances) ==
    IF instances # <<>>
    THEN {[done |-> j,
           kind |-> IF j = Len(instances) THEN "returned" ELSE "raised"] :
          j \in 0..Len(instances)}
    ELSE {[done |-> 0, kind |-> "returned"]}

\* terminate_instances(ver), lines 276-285
TerminateInstancesFor(ver) ==
    /\ pc = "idle"
    /\ LET instances == GetInstancesOf(inst, ver)
       IN \E o \in TerminateOutcomes(instances) :
           /\ inst' = Terminated(inst, {instances[m] : m \in 1..o.done})
           /\ last' = CallRecordOf("terminate_instances", ver, o.kind, "none",
                                   SubSeq(instances, 1, o.done))
    /\ UNCHANGED <<rcluster, hostfile, manager_private, manager_ssh,
                   worker_runtime, manager_runtime, pc, call, task,
                   hostfile_lock, result, calls, hist, cmd, conn, offVars>>

\* terminate_instances(): ver is self.ver
TerminateInstances == TerminateInstancesFor(Ver)

\* ------------------------------------------------------- the specification

Next ==
    \/ \E n \in 0..MaxWorkers : CreateCluster(n)
    \/ CI_Launch
    \/ CI_Wait
    \/ CI_Tags
    \/ CC_Prepare
    \/ CC_StartWorker
    \/ CC_Join
    \/ CC_Except
    \/ CC_ConnectManager
    \/ \E i \in DOMAIN task : Cfg_Connect(i)
    \/ \E i \in DOMAIN task : Cfg_CpuCount(i)
    \/ \E i \in DOMAIN task : Cfg_Acquire(i)
    \/ \E i \in DOMAIN task : Cfg_Read(i)
    \/ \E i \in DOMAIN task : Cfg_Write(i)
    \/ \E i \in DOMAIN task : Cfg_Release(i)
    \/ \E i \in DOMAIN task : Cfg_Runtime(i)

Spec == Init /\ [][Next]_vars

\* ------------------------------------------------------------ create_cluster

\* The create_cluster call that launched instances has ended.
CallEnded == pc = "idle" /\ hist.fresh

\* C1: whenever the configuration of a launched instance (a worker or the
\* manager) fails, create_cluster raises to its caller, every instance the
\* call launched is terminated, and the instances are not recorded as the
\* active cluster.
C1_ConfigFailureRollsBack ==
    (CallEnded /\ hist.failed # {}) =>
        /\ result.kind = "raised"
        /\ \A i \in Range(call.instances) : inst[i].state = "terminated"
        /\ rcluster = <<>>

\* C2: when the manager's startup command runs, the hostfile it sees holds
\* the lines of every worker the call launched.
C2_HostfileCompleteBeforeManagerRuntime ==
    hist.mgrRan => \A w \in Workers : Occurrences(hist.mgrCtx, w) >= 1

\* C3: after a successful create_cluster the hostfile holds, for every worker,
\* its private IP once per CPU it reported, and the manager's private IP once
\* per CPU it reported less one: sum(c_i) + (c_m - 1) lines in all.
C3_HostfileLineCount ==
    (CallEnded /\ result.kind = "returned") =>
        /\ \A w \in Workers : Occurrences(hostfile, w) = task[w].reported
        /\ Occurrences(hostfile, Manager) = task[Manager].reported - 1
        /\ Len(hostfile) =
              SumOver([w \in Workers |-> task[w].reported], Workers)
              + (task[Manager].reported - 1)

\* C4: a create_instances(n) that returns, returns exactly n distinct
\* instances, each tagged rcluster = the controller's version; otherwise it
\* raises.
C4_CreateInstancesAllOrNothing ==
    /\ hist.created \in {"none", "returned", "raised"}
    /\ hist.created = "returned" =>
        /\ Len(call.instances) = call.want
        /\ Cardinality(Range(call.instances)) = call.want
        /\ \A i \in Range(call.instances) :
              i \in DOMAIN inst /\ VersionTag \in inst[i].tags
    /\ hist.created = "raised" => (pc = "idle" /\ result.kind = "raised")

C4_Witness ==
    /\ hist.created = "returned"
    /\ call.want = MaxWorkers + 1
    /\ pc = "prepare"

\* C5: a create_cluster call on a controller that records a non-empty active
\* cluster returns that list and changes nothing: no instance is launched,
\* tagged or terminated, no session is opened, the hostfile and the recorded
\* cluster stay as they were.
C5_ActiveClusterShortCircuit ==
    [][(calls' = calls + 1 /\ rcluster # <<>>) =>
          /\ result' = Returned(rcluster)
          /\ pc' = "idle"
          /\ UNCHANGED <<inst, rcluster, hostfile, manager_private,
                         manager_ssh, hostfile_lock, task>>]_vars

C5_Witness ==
    /\ calls = 2
    /\ rcluster # <<>>
    /\ ~hist.fresh
    /\ pc = "idle"
    /\ result = Returned(rcluster)
    /\ Len(inst) = Len(rcluster)

\* The tasks inside the with block of line 217
InCritical == {i \in DOMAIN task : task[i].pc \in {"read", "write", "release"}}

\* C10: in every interleaving of the configurator tasks of a call, at most
\* one task is inside the locked append; the hostfile holds, for every
\* instance that has appended, one contiguous block of its private IP, once
\* per CPU counted, and nothing else: no append is lost or torn.
C10_HostfileAppendsAtomic ==
    /\ Cardinality(InCritical) <= 1
    /\ \A i \in InCritical : hostfile_lock = i
    /\ pc = "idle" => \A i \in DOMAIN task : task[i].cpus > 0 => task[i].wrote
    /\ \A i \in DOMAIN task :
          Occurrences(hostfile, i) = IF task[i].wrote THEN task[i].cpus ELSE 0
    /\ task # <<>> => Range(hostfile) \subseteq DOMAIN task
    /\ \A a, b \in 1..Len(hostfile) :
          (a < b /\ hostfile[a] = hostfile[b]) =>
              \A c \in a..b : hostfile[c] = hostfile[a]

C10_Witness ==
    /\ CallEnded
    /\ result.kind = "returned"
    /\ Len(call.instances) = 3
    /\ \A i \in Range(call.instances) : task[i].wrote
    /\ hostfile[1] = call.instances[3]
    /\ task[call.instances[2]].cpus = 2
    /\ Len(hostfile) >= 4

\* The call is past the preparation: task holds the frames of this call
Configuring == pc \in {"start_workers", "configure_manager", "connect_manager"}

\* C28: in a create_cluster call the workers are configured by one task for
\* each worker instance, run at the same time, and the configuration of the
\* manager, its connection included, does not begin before every worker
\* task has ended.
C28_ManagerAfterEveryWorker ==
    Configuring =>
        /\ DOMAIN task = Range(call.instances)
        /\ \A j \in 2..Len(call.instances) :
              (task[call.instances[j]].pc # "new") <=> (j - 1 <= call.started)
        /\ task[Manager].pc # "new" =>
              /\ call.started = Len(call.instances) - 1
              /\ \A w \in Workers : task[w].pc \in {"done", "dead"}

C28_Witness ==
    /\ pc = "configure_manager"
    /\ task[Manager].pc = "cpu_count"
    /\ Cardinality(Workers) = MaxWorkers
    /\ \E w \in Workers : task[w].pc = "done"

\* The order of the steps of _configure_instance
StepOrder ==
    {<<"new", "connect">>, <<"connect", "cpu_count">>,
     <<"cpu_count", "acquire">>, <<"acquire", "read">>, <<"read", "write">>,
     <<"write", "release">>, <<"release", "runtime">>, <<"runtime", "done">>}
    \cup ({"connect", "cpu_count", "runtime"} \X {"dead", "raised"})

\* C29: for each instance configured in a create_cluster call the steps come
\* in order: the session is opened, the processor count asked, the
\* instance's lines added to the hostfile, then the startup command run.
\* The command is run only if one is configured for the role, and it is
\* formatted with the controller's attributes as they are at that moment,
\* the manager's private IP and the instance's own hostfile lines among
\* them.
C29_ConfigurationStepsInOrder ==
    [][(Configuring /\ DOMAIN task' = DOMAIN task) =>
          \A i \in DOMAIN task :
             /\ task'[i].pc # task[i].pc =>
                   <<task[i].pc, task'[i].pc>> \in StepOrder
             /\ (i \in hist'.ran /\ i \notin hist.ran) =>
                   /\ task[i].pc = "runtime"
                   /\ IF i = Manager THEN manager_runtime ELSE worker_runtime
                   /\ manager_private = Manager
                   /\ task[i].wrote
                   /\ task[i].cpus > 0 =>
                         Occurrences(hostfile, i) = task[i].cpus]_vars

C29_Witness ==
    /\ Configuring
    /\ \E w \in Workers :
          /\ w \in hist.ran
          /\ task[w].pc = "done"
          /\ task[w].cpus = 2
          /\ Occurrences(hostfile, w) = 2
    /\ Manager \in hist.ran
    /\ Occurrences(hostfile, Manager) = 2

\* C31: whenever create_cluster raises after instances were launched, be it
\* while create_instances waits for or tags them or while the session to
\* the manager is opened after the configuration, no instance the call
\* launched is left running or pending.
C31_NoInstanceLeftAfterRaise ==
    (CallEnded /\ result.kind = "raised") =>
        \A i \in Range(call.instances) : ~Live(i)

\* C32: when create_cluster rolls back after the configuration failed,
\* terminate is called on every instance of the call even if one of the
\* calls fails (so at most the instances whose terminate failed are left),
\* and the error raised is the error of the configuration.
C32_RollbackReachesEveryInstance ==
    (CallEnded /\ call.err # "none") =>
        /\ result = Raised(call.err)
        /\ Cardinality({i \in Range(call.instances) : Live(i)}) <= 1

\* ------------------------------------------- finding and ending a cluster
\* The controller's whole life: create_cluster, get_manager, get_instances
\* and terminate_instances in any order, on a controller that has no
\* startup command configured.

LifeInit ==
    /\ ClusterQuiet
    /\ LaterQuiet
    /\ cmd = NoCmd
    /\ conn = NoConn

LifeNext ==
    \/ Next
    \/ GetManager
    \/ GetInstances
    \/ TerminateInstances

SpecLife == LifeInit /\ [][LifeNext]_vars

\* C11: whenever no running or pending instance carries the manager tag of
\* this version, get_manager returns None and does not raise, whatever calls
\* of create_cluster and terminate_instances came before.
C11_GetManagerNoneWithoutCluster ==
    (last.op = "get_manager" /\ ManagerByTag(inst, Ver) = <<>>) =>
        /\ last.kind = "returned"
        /\ last.shape = "none"

\* create_cluster has just returned the cluster it launched.
JustCreated ==
    /\ CallEnded
    /\ result.kind = "returned"
    /\ last = NoLast
    /\ SideQuiet

\* C12: right after create_cluster returned its W + 1 instances, the lookups
\* by tag alone (those of a controller without a recorded cluster) find
\* them: get_instances returns exactly these instances and the manager
\* lookup exactly one instance, the manager of the call.
C12_ClusterFoundByTagAlone ==
    JustCreated =>
        /\ Range(GetInstancesOf(inst, Ver)) = Range(call.instances)
        /\ Len(GetInstancesOf(inst, Ver)) = call.n + 1
        /\ ManagerByTag(inst, Ver) = <<Manager>>

\* C13: a terminate_instances call that finds no running or pending
\* instance of the version terminates nothing and returns; so does the
\* second of two calls in a row.
C13_TerminateIdempotent ==
    [][(pc = "idle" /\ last'.op = "terminate_instances") =>
          /\ GetInstancesOf(inst, Ver) = <<>> =>
                (inst' = inst /\ last'.kind = "returned"
                              /\ last'.value = <<>>)
          /\ last'.again =>
                (inst' = inst /\ last'.kind = "returned"
                              /\ last'.value = <<>>)]_vars

C13_Witness ==
    /\ last.op = "terminate_instances"
    /\ last.again
    /\ last.kind = "returned"
    /\ \E i \in DOMAIN inst :
          inst[i].state = "terminated" /\ VersionTag \in inst[i].tags

\* C14: once terminate_instances has returned, get_instances for the version
\* returns the empty list, and goes on returning it until create_cluster is
\* called again (nothing else launches instances).
C14_NoInstancesAfterTerminate ==
    last.cleared =>
        /\ GetInstancesOf(inst, Ver) = <<>>
        /\ last.op = "get_instances" => last.value = <<>>

C14_Witness ==
    /\ last.cleared
    /\ last.op = "get_instances"
    /\ Len(rcluster) >= 2
    /\ \A i \in Range(rcluster) : inst[i].state = "terminated"

\* C33: create_cluster never returns terminated instances: the instances a
\* call returns are running or pending when it returns, also when a
\* terminate_instances came between a call that returned and the next call.
C33_ReturnedInstancesAreLive ==
    [][((calls' = calls + 1 \/ pc = "connect_manager")
        /\ result'.kind = "returned") =>
          \A i \in Range(result'.value) : IsLive(inst'[i].state)]_vars

\* ------------------------------------------------- pmkCmd and cpuCount alone

\* The characters a remote command may print, and the texts made of them
Alphabet == {"1", "6", "x", Newline}

TextsUpTo(n) == UNION {[1..m -> Alphabet] : m \in 0..n}

Boom == <<"b", "o", "o", "m">>

\* recv_exit_status(): the status, or -1 when the server sent none
ExitStatuses == {-1, 0, 1}

CmdInit ==
    /\ ClusterQuiet
    /\ LaterQuiet
    /\ conn = NoConn
    /\ cmd \in [stdout : TextsUpTo(MaxText), stderr : {<<>>, Boom},
                exit_status : ExitStatuses, ran : {"none"}, out : {<<>>}]

\* pmkCmd(client, call) is called and ends.
RunPmkCmd ==
    /\ cmd.ran = "none"
    /\ cmd' = [cmd EXCEPT !.ran = "pmk_cmd",
                          !.out = PmkCmd(cmd.stdout, cmd.stderr,
                                         cmd.exit_status)]
    /\ UNCHANGED <<clusterVars, conn, laterVars>>

\* cpuCount(client) is called and ends.
RunCpuCount ==
    /\ cmd.ran = "none"
    /\ cmd' = [cmd EXCEPT !.ran = "cpu_count",
                          !.out = CpuCount(cmd.stdout, cmd.stderr,
                                           cmd.exit_status)]
    /\ UNCHANGED <<clusterVars, conn, laterVars>>

CmdNext ==
    \/ RunPmkCmd
    \/ RunCpuCount

SpecCmd == CmdInit /\ [][CmdNext]_vars

\* The text a sequence of bytes decodes to
Decode(bytes) ==
    [j \in 1..Len(bytes) |->
        CHOOSE c \in Alphabet \cup Range(Boom) : Utf8(c) = bytes[j]]

\* C8: pmkCmd raises exactly when the remote exit status is not zero, and
\* the error then carries the text the command wrote to stderr; with status
\* zero it returns the standard output the command wrote.
C8_PmkCmdRaisesIffNonZero ==
    cmd.ran = "pmk_cmd" =>
        /\ cmd.out.kind = "raise" <=> cmd.exit_status # 0
        /\ cmd.out.kind = "raise" => Decode(cmd.out.value) = cmd.stderr
        /\ cmd.out.kind # "raise" =>
              (cmd.out.kind = "return" /\ cmd.out.value = cmd.stdout)

C8_Witness ==
    /\ cmd.ran = "pmk_cmd"
    /\ cmd.exit_status = 1
    /\ cmd.stderr = Boom
    /\ cmd.out.kind = "raise"
    /\ Decode(cmd.out.value) = Boom

\* C9: cpuCount returns the integer N >= 1 that the command prints on its
\* one line of output, whatever the number of digits, and fails instead of
\* returning a value when the output is not an integer.
C9_CpuCountParsesTheLine ==
    (cmd.ran = "cpu_count" /\ cmd.exit_status = 0) =>
        IF IsInteger(cmd.stdout)
        THEN DecimalValue(Strip(cmd.stdout)) >= 1 =>
                /\ cmd.out.kind = "return"
                /\ cmd.out.value = DecimalValue(Strip(cmd.stdout))
        ELSE cmd.out.kind = "raise"

\* ------------------------------------------------------------ pmkConnect alone

\* except (TimeoutError, ConnectionRefusedError, NoValidConnectionsError)
Transient == {"TimeoutError", "ConnectionRefusedError",
              "NoValidConnectionsError"}

ConnInit ==
    /\ ClusterQuiet
    /\ LaterQuiet
    /\ cmd = NoCmd
    /\ conn \in [up : BOOLEAN, key : {"ok", "unreadable", "rejected"},
                 pc : {"try"}, stack : {<<>>}, err : {"none"}, tries : {0}]

\* Lines 24-36, one pass through the try statement: the key file is read and
\* the host is dialled.  conn.stack holds the errors whose except clauses
\* are still running, one per frame of pmkConnect below this one.
K_Attempt ==
    /\ conn.pc = "try"
    /\ \/ /\ conn.key = "unreadable"
          /\ conn' = [conn EXCEPT !.pc = "raised", !.err = "IOError",
                                  !.tries = @ + 1]
       \/ /\ conn.key # "unreadable"
          /\ ~conn.up
          /\ \E e \in Transient :
                conn' = [conn EXCEPT !.pc = "sleep", !.tries = @ + 1,
                                     !.stack = Append(@, e)]
       \/ /\ conn.key = "rejected"
          /\ conn.up
          /\ conn' = [conn EXCEPT !.pc = "raised", !.tries = @ + 1,
                                  !.err = "AuthenticationException"]
       \/ /\ conn.key = "ok"
          /\ conn.up
          /\ conn' = [conn EXCEPT !.pc = "returned", !.tries = @ + 1]
    /\ UNCHANGED <<clusterVars, cmd, laterVars>>

\* Lines 32-33: sleep(15); return pmkConnect(host, key_path, username).  The
\* call adds a frame to those of conn.stack; past the interpreter's limit
\* it raises RecursionError, which no clause of the frames below handles.
K_Retry ==
    /\ conn.pc = "sleep"
    /\ IF Len(conn.stack) < RecursionLimit
       THEN conn' = [conn EXCEPT !.pc = "try"]
       ELSE conn' = [conn EXCEPT !.pc = "raised", !.err = "RecursionError"]
    /\ UNCHANGED <<clusterVars, cmd, laterVars>>

\* The host starts or stops answering while pmkConnect runs.
K_HostUp ==
    /\ conn.pc \in {"try", "sleep"}
    /\ ~conn.up
    /\ conn' = [conn EXCEPT !.up = TRUE]
    /\ UNCHANGED <<clusterVars, cmd, laterVars>>

K_HostDown ==
    /\ conn.pc \in {"try", "sleep"}
    /\ conn.up
    /\ conn' = [conn EXCEPT !.up = FALSE]
    /\ UNCHANGED <<clusterVars, cmd, laterVars>>

ConnNext ==
    \/ K_Attempt
    \/ K_Retry
    \/ K_HostUp
    \/ K_HostDown

\* The thread that runs pmkConnect keeps running: a sleep ends, an attempt
\* is made.  Nothing is assumed of the host.
SpecConnect ==
    ConnInit /\ [][ConnNext]_vars /\ WF_vars(K_Attempt) /\ WF_vars(K_Retry)

\* C6: a transient connection error is never raised to the caller and always
\* leads to another attempt, however many came before; any other error of an
\* attempt is raised at once, as it is, with no further attempt.
C6_TransientRetriedOthersRaised ==
    [][/\ conn.pc = "sleep" => conn'.pc \in {"sleep", "try"}
       /\ (conn.pc # "raised" /\ conn'.pc = "raised") =>
             (conn.pc = "try" /\ conn'.err \notin Transient
                              /\ conn'.stack = conn.stack)
       /\ conn.pc = "raised" => conn'.pc = "raised"]_vars

\* C7: if the host, after any finite number of failed attempts, answers and
\* keeps answering, pmkConnect does not raise and in the end returns a
\* session (the key being valid).
C7_EventuallyConnected ==
    (conn.key = "ok" /\ <>[]conn.up) => <>(conn.pc = "returned")

\* ---------------------------------------------------------- _ec2_purge alone

\* The five kinds of resource _ec2_purge removes, in the order of its
\* statements.
Categories == {"instances", "images", "key_pairs", "placement_groups",
               "security_groups"}

PurgeInit ==
    /\ ClusterQuiet
    /\ cmd = NoCmd
    /\ conn = NoConn
    /\ last = NoLast
    /\ SideQuiet
    /\ cfg = NoCfg
    /\ put = NoPut
    /\ jobs = NoJobs
    /\ \E present \in SUBSET Categories : \E fails \in SUBSET present :
          purge = [pc |-> "instances", present |-> present, fails |-> fails,
                   attempted |-> {}, deleted |-> {}]

\* One statement pair of _ec2_purge: the resources of kind c that carry the
\* version are listed and each is deleted; a delete that raises ends the
\* call.  purge.present are the kinds the account has resources of,
\* purge.fails those whose deletion the provider refuses.
PurgeStep(c, next) ==
    /\ purge.pc = c
    /\ purge' = IF c \notin purge.present
                THEN [purge EXCEPT !.pc = next]
                ELSE IF c \in purge.fails
                THEN [purge EXCEPT !.pc = "raised", !.attempted = @ \cup {c}]
                ELSE [purge EXCEPT !.pc = next, !.attempted = @ \cup {c},
                                   !.deleted = @ \cup {c}]
    /\ UNCHANGED <<clusterVars, cmd, conn, last, sideVars, cfg, put, jobs>>

\* Lines 390-398
Purge_Instances == PurgeStep("instances", "images")
\* Lines 399-403
Purge_Images == PurgeStep("images", "key_pairs")
\* Lines 404-408
Purge_KeyPairs == PurgeStep("key_pairs", "placement_groups")
\* Lines 409-413
Purge_PlacementGroups == PurgeStep("placement_groups", "security_groups")
\* Lines 414-418
Purge_SecurityGroups == PurgeStep("security_groups", "done")

PurgeNext ==
    \/ Purge_Instances
    \/ Purge_Images
    \/ Purge_KeyPairs
    \/ Purge_PlacementGroups
    \/ Purge_SecurityGroups

SpecPurge == PurgeInit /\ [][PurgeNext]_vars

\* C15: purge handles the five kinds of resource independently: when the
\* deletion of one kind fails, the deletion of every other kind the account
\* has is still attempted.
C15_PurgeCategoriesIndependent ==
    purge.pc \in {"done", "raised"} => purge.present \subseteq purge.attempted

\* ------------------------------------- the configuration and its snapshot

\* Python values: None, a string, a list of one string, a dict of one item
None_ == <<"none">>
Str(x) == <<"str", x>>
List1(x) == <<"list", x>>
Dict1(k, x) == <<"dict", k, x>>

\* self._kwargs, lines 54-55: the parameters of RCluster but purge.  The
\* value of instance_conf is a dict, kept apart from the scalar ones.
Kwargs == {"aws_access_key_id", "aws_secret_access_key", "region_name",
           "instance_conf", "manager_runtime", "worker_runtime", "key_path",
           "ip_ref", "ver"}
Scalars == Kwargs \ {"instance_conf"}

\* the attributes create_cluster sets besides
Discovered == {"manager_private", "hostfile"}

\* rcl._set_data('pem'): the path of the generated key file
PemPath == "~/.rcluster/0.2.21.pem"

\* Lines 67-92 of __init__: a key pair is generated when no key path is
\* given, and the security group and the placement group named after the
\* version are created when instance_conf names none.
Constructed(top, conf) ==
    LET ver == top["ver"][2]
        withSg == IF "SecurityGroups" \in DOMAIN conf THEN conf
                  ELSE [k \in DOMAIN conf \cup {"SecurityGroups"} |->
                          IF k = "SecurityGroups" THEN List1(ver) ELSE conf[k]]
        withPg == IF "Placement" \in DOMAIN withSg THEN withSg
                  ELSE [k \in DOMAIN withSg \cup {"Placement"} |->
                          IF k = "Placement" THEN Dict1("GroupName", ver)
                          ELSE withSg[k]]
    IN [top |-> [top EXCEPT !["key_path"] =
                    IF @ \in {None_, Str("")} THEN Str(PemPath) ELSE @],
        conf |-> withPg]

MirroredCopy(ref) == "d2"

\* __setattr__, line 113: self._config[key] = value stores the very object
\* that the attribute holds.
Mirrored(ref) == ref

\* __setattr__(key, value), lines 102-114, for a scalar value
SetAttr(c, key, value) ==
    [c EXCEPT !.attr = [k \in DOMAIN @ \cup {key} |->
                           IF k = key THEN value ELSE @[k]],
              !.config = IF key \in Kwargs
                         THEN [k \in DOMAIN @ \cup {key} |->
                                  IF k = key THEN value ELSE @[k]]
                         ELSE @]

\* self._config as write_config sees it
Snapshot(c) == [top |-> c.config, conf |-> c.heap[c.config_ref]]

\* json.dump / json.load, value by value
ToJson(v) ==
    CASE v[1] = "none" -> <<"null">>
      [] v[1] = "str" -> <<"string", v[2]>>
      [] v[1] = "list" -> <<"array", v[2]>>
      [] v[1] = "dict" -> <<"object", v[2], v[3]>>

FromJson(j) ==
    CASE j[1] = "null" -> None_
      [] j[1] = "string" -> Str(j[2])
      [] j[1] = "array" -> List1(j[2])
      [] j[1] = "object" -> Dict1(j[2], j[3])

JsonDump(snap) ==
    [top |-> [k \in DOMAIN snap.top |-> ToJson(snap.top[k])],
     conf |-> [k \in DOMAIN snap.conf |-> ToJson(snap.conf[k])]]

JsonLoad(doc) ==
    [top |-> [k \in DOMAIN doc.top |-> FromJson(doc.top[k])],
     conf |-> [k \in DOMAIN doc.conf |-> FromJson(doc.conf[k])]]

PromptedFalsy(v) == v \in {None_, Str("")}

\* from_config, line 138: if dic[key] is None
Prompted(v) == v = None_

\* what the user may type at a prompt
Answers == {"", "typed"}

\* The controller RCluster(**args) with instance_conf = conf
NewController(top, conf) ==
    LET made == Constructed(top, conf)
    IN [NoCfg EXCEPT !.pc = "live",
                     !.attr = made.top, !.attr_ref = "d1",
                     !.config = made.top, !.config_ref = Mirrored("d1"),
                     !.heap = [o \in {"d1", "d2"} |-> made.conf]]

ConfigInit ==
    /\ ClusterQuiet
    /\ cmd = NoCmd
    /\ conn = NoConn
    /\ last = NoLast
    /\ SideQuiet
    /\ purge = NoPurge
    /\ put = NoPut
    /\ jobs = NoJobs
    /\ \E secret \in {None_, Str("secret")} :
       \E mrun \in {None_, Str(""), Str("rstudio")} :
       \E wrun \in {None_, Str("worker")} :
       \E key \in {None_, Str("my.pem")} :
       \E given \in SUBSET {"SecurityGroups", "Placement"} :
          cfg = NewController(
                  [k \in Scalars |->
                      CASE k = "aws_access_key_id" -> Str("id")
                        [] k = "aws_secret_access_key" -> secret
                        [] k = "region_name" -> Str("us-east-1")
                        [] k = "manager_runtime" -> mrun
                        [] k = "worker_runtime" -> wrun
                        [] k = "key_path" -> key
                        [] k = "ip_ref" -> Str("public_ip_address")
                        [] k = "ver" -> Str(Ver)],
                  [k \in {"ImageId"} \cup given |->
                      CASE k = "ImageId" -> Str("ami-0")
                        [] k = "SecurityGroups" -> List1("sg")
                        [] k = "Placement" -> Dict1("GroupName", "pg")])

\* create_cluster, lines 188-189: the manager's address and the hostfile are
\* set on the controller.
Cf_SetDiscovered ==
    /\ cfg.pc = "live"
    /\ "hostfile" \notin DOMAIN cfg.attr
    /\ cfg' = SetAttr(SetAttr(cfg, "manager_private", Str("10.0.0.1")),
                      "hostfile", Str("10.0.0.2"))
    /\ UNCHANGED <<clusterVars, cmd, conn, last, sideVars, purge, put, jobs>>

\* create_ami(update_image=True), lines 328-329
Cf_CreateAmi ==
    /\ cfg.pc = "live"
    /\ cfg.heap[cfg.attr_ref]["ImageId"] = Str("ami-0")
    /\ cfg' = [cfg EXCEPT !.heap[cfg.attr_ref]["ImageId"] = Str("ami-1")]
    /\ UNCHANGED <<clusterVars, cmd, conn, last, sideVars, purge, put, jobs>>

\* write_config(fn), lines 116-122
Cf_WriteConfig ==
    /\ cfg.pc = "live"
    /\ cfg' = [cfg EXCEPT !.pc = "written",
                          !.saved = Snapshot(cfg),
                          !.file = JsonDump(Snapshot(cfg))]
    /\ UNCHANGED <<clusterVars, cmd, conn, last, sideVars, purge, put, jobs>>

\* from_config(fn), lines 124-140, with no override
Cf_FromConfig ==
    /\ cfg.pc = "written"
    /\ LET dic == JsonLoad(cfg.file)
           asked == {k \in DOMAIN dic.top : Prompted(dic.top[k])}
       IN \E typed \in [asked -> Answers] :
            cfg' = [cfg EXCEPT
                      !.pc = "loaded",
                      !.asked = asked,
                      !.loaded =
                         Constructed([k \in DOMAIN dic.top |->
                                         IF k \in asked THEN Str(typed[k])
                                         ELSE dic.top[k]],
                                     dic.conf)]
    /\ UNCHANGED <<clusterVars, cmd, conn, last, sideVars, purge, put, jobs>>

ConfigNext ==
    \/ Cf_SetDiscovered
    \/ Cf_CreateAmi
    \/ Cf_WriteConfig
    \/ Cf_FromConfig

SpecConfig == ConfigInit /\ [][ConfigNext]_vars

Exported == JsonLoad(JsonDump(Snapshot(cfg)))

\* C17 (as the code has it): whenever a configuration field, that is a
\* parameter of the constructor, is set on the controller, the image id
\* inside instance_conf included, the snapshot write_config would export
\* holds that value; the hostfile and the manager IP are attributes only and
\* are never part of the snapshot.
C17_SnapshotHoldsConfigFields ==
    cfg.pc # "none" =>
        /\ DOMAIN Exported.top = Scalars
        /\ \A k \in Scalars : Exported.top[k] = cfg.attr[k]
        /\ Exported.conf = cfg.heap[cfg.attr_ref]
        /\ \A k \in Discovered : k \notin DOMAIN Exported.top

C17_Witness ==
    /\ cfg.pc = "live"
    /\ cfg.heap[cfg.attr_ref]["ImageId"] = Str("ami-1")
    /\ Exported.conf["ImageId"] = Str("ami-1")
    /\ "hostfile" \in DOMAIN cfg.attr

\* C17 (as stated): whenever the image id, the discovered hostfile or the
\* manager IP is set on the controller, that value is present in the
\* snapshot write_config would export.
C17_SnapshotHoldsDiscovered ==
    cfg.pc # "none" =>
        /\ Exported.conf["ImageId"] = cfg.heap[cfg.attr_ref]["ImageId"]
        /\ \A k \in Discovered :
              k \in DOMAIN cfg.attr =>
                 (k \in DOMAIN Exported.top /\ Exported.top[k] = cfg.attr[k])

\* ------------------------------------------------------------- pmkPut alone
\* A path is a sequence of characters.  A local tree is the set of its
\* regular files, each the sequence of names that leads to it from the
\* source directory.  put.os is the system the call runs on: "posix" or
\* "nt".

Backslash == "\\"

\* os.sep
Sep(os) == IF os = "nt" THEN Backslash ELSE "/"

\* what the system takes for a separator in a path (os.sep, os.altsep)
IsSep(os, c) == c = "/" \/ (os = "nt" /\ c = Backslash)

\* os.path.join(a, b)
OsPathJoin(os, a, b) ==
    IF b # <<>> /\ IsSep(os, b[1]) THEN b
    ELSE IF a = <<>> \/ IsSep(os, a[Len(a)]) THEN a \o b
    ELSE a \o <<Sep(os)>> \o b

\* str.replace('\\', '/') of line 72
ReplaceNothing(path) == path
Replace(path) ==
    [j \in 1..Len(path) |-> IF path[j] = Backslash THEN "/" ELSE path[j]]

\* _unixPath(a, b), lines 70-72
UnixPath(os, a, b) == Replace(OsPathJoin(os, a, b))

\* _unixPath(path), lines 70-72: os.path.join(path) is path
UnixPath1(path) == Replace(path)

\* The names a path is made of, as the system reads it
RECURSIVE Split(_, _)
Split(os, path) ==
    IF path = <<>> THEN <<>>
    ELSE LET seps == {j \in 1..Len(path) : IsSep(os, path[j])}
         IN IF seps = {} THEN <<path>>
            ELSE LET j == CHOOSE x \in seps : \A y \in seps : x <= y
                     rest == Split(os, SubSeq(path, j + 1, Len(path)))
                 IN IF j = 1 THEN rest
                    ELSE <<SubSeq(path, 1, j - 1)>> \o rest

RECURSIVE JoinNames(_, _)
JoinNames(sep, names) ==
    IF names = <<>> THEN <<>>
    ELSE IF Len(names) = 1 THEN names[1]
    ELSE names[1] \o <<sep>> \o JoinNames(sep, Tail(names))

\* os.path.relpath(path, start), both relative to the working directory
RelPath(os, path, start) ==
    LET p == Split(os, path)
        st == Split(os, start)
        same == {n \in 0..Len(st) :
                    n <= Len(p) /\ \A j \in 1..n : p[j] = st[j]}
        n == CHOOSE x \in same : \A y \in same : y <= x
        rel == [j \in 1..(Len(st) - n) |-> <<".", ".">>]
               \o SubSeq(p, n + 1, Len(p))
    IN IF rel = <<>> THEN <<".">> ELSE JoinNames(Sep(os), rel)

\* os.path.basename(path)
Basename(os, path) ==
    LET seps == {j \in 1..Len(path) : IsSep(os, path[j])}
    IN IF seps = {} THEN path
       ELSE SubSeq(path, (CHOOSE x \in seps : \A y \in seps : y <= x) + 1,
                   Len(path))

\* The names a file or directory may have on the system: no separator in
\* them.
NameTexts == {<<"a">>, <<"b">>, <<"a", Backslash, "b">>}
Names(os) == {n \in NameTexts : \A j \in 1..Len(n) : ~IsSep(os, n[j])}

\* the source and the target the call is given
Source == <<"d">>
Target == <<"/", "t">>

FilesUpTo(os, depth) == UNION {[1..m -> Names(os)] : m \in 1..depth}

\* No file of a tree lies below another file.
IsTree(files) ==
    \A f \in files : \A g \in files :
        (Len(f) < Len(g)) => SubSeq(g, 1, Len(f)) # f

Trees(os) ==
    {t \in UNION {{Range(pick) : pick \in [1..m -> FilesUpTo(os, MaxDepth)]} :
                  m \in 0..MaxTreeFiles} : IsTree(t)}

\* os.walk(source) names the directory of a file as source joined with the
\* names that lead to it, one os.path.join at a time.
RECURSIVE WalkRoot(_, _, _)
WalkRoot(os, top, dirs) ==
    IF dirs = <<>> THEN top
    ELSE WalkRoot(os, OsPathJoin(os, top, dirs[1]), Tail(dirs))

RECURSIVE SetToSeq(_)
SetToSeq(S) ==
    IF S = {} THEN <<>>
    ELSE LET x == CHOOSE y \in S : TRUE IN <<x>> \o SetToSeq(S \ {x})

\* _filesFromWalk(os.walk(source)), lines 95-108: every file of the tree,
\* as _unixPath(root, fn)
FilesFromWalk(os, source, tree) ==
    [j \in 1..Cardinality(tree) |->
        LET f == SetToSeq(tree)[j]
        IN UnixPath(os, WalkRoot(os, source, SubSeq(f, 1, Len(f) - 1)),
                    f[Len(f)])]

\* pmkPut, lines 120-131: the (source, destination) pairs
SendFiles(os, kind, source, target, tree) ==
    IF kind = "file"
    THEN <<[source_fn |-> source,
            target_fn |-> UnixPath(os, target, Basename(os, source))]>>
    ELSE IF kind = "dir"
    THEN LET found == FilesFromWalk(os, source, tree)
         IN [j \in 1..Len(found) |->
               [source_fn |-> found[j],
                target_fn |-> UnixPath(os, target,
                                       RelPath(os, found[j], source))]]
    ELSE <<>>

PutInit ==
    /\ ClusterQuiet
    /\ cmd = NoCmd
    /\ conn = NoConn
    /\ last = NoLast
    /\ SideQuiet
    /\ purge = NoPurge
    /\ cfg = NoCfg
    /\ jobs = NoJobs
    /\ \E os \in {"posix", "nt"} :
          \/ \E tree \in Trees(os) :
                put = [pc |-> "new", os |-> os, kind |-> "dir",
                       tree |-> tree, send_files |-> <<>>]
          \/ \E kind \in {"file", "missing"} :
                put = [pc |-> "new", os |-> os, kind |-> kind,
                       tree |-> {}, send_files |-> <<>>]

\* pmkPut(client, source, target), lines 111-132, up to the list it hands
\* to pmkPutFiles
PmkPut ==
    /\ put.pc = "new"
    /\ put' = [put EXCEPT !.pc = "done",
                          !.send_files = SendFiles(put.os, put.kind, Source,
                                                   Target, put.tree)]
    /\ UNCHANGED <<clusterVars, cmd, conn, last, sideVars, purge, cfg, jobs>>

PutNext ==
    \/ PmkPut

SpecPut == PutInit /\ [][PutNext]_vars

\* The local file a path names on the system: the names from Source down
Resolves(os, path, f) == Split(os, path) = <<Source>> \o f

\* C18: for a source directory tree and the target T, the list of pairs
\* holds every regular file of the tree exactly once, its destination being
\* T joined with the file's path relative to the source directory, with
\* forward slashes as the only separators.
C18_PairsCoverTheTree ==
    (put.pc = "done" /\ put.kind = "dir") =>
        /\ Len(put.send_files) = Cardinality(put.tree)
        /\ \A f \in put.tree :
              Cardinality({j \in 1..Len(put.send_files) :
                  /\ Resolves(put.os, put.send_files[j].source_fn, f)
                  /\ put.send_files[j].target_fn =
                        Target \o <<"/">> \o JoinNames("/", f)}) = 1

\* ----------------------------------------- pmkPutFiles / pmkGetFiles alone
\* A batch of jobs.n files, each a (source, destination) pair known by its
\* place in the list.  jobs.th[i] is the call of pmkPutFile or pmkGetFile
\* for file i: where it stands, how many frames of the function it has on
\* its stack, and how many times the file was transferred.

\* the longest list handed to a batch
MaxBatch == ConcurrencyCap + 1

NoTransfer == [pc |-> "new", depth |-> 0, sent |-> 0, err |-> "none"]

JobsInit ==
    /\ ClusterQuiet
    /\ cmd = NoCmd
    /\ conn = NoConn
    /\ last = NoLast
    /\ SideQuiet
    /\ purge = NoPurge
    /\ cfg = NoCfg
    /\ put = NoPut
    /\ \E func \in {"put", "get"} : \E threaded \in BOOLEAN :
       \E n \in 0..MaxBatch :
          jobs = [pc |-> "start", func |-> func, threaded |-> threaded,
                  n |-> n, started |-> 0, th |-> [i \in 1..n |-> NoTransfer],
                  err |-> "none"]

TransferEnded(i) == jobs.th[i].pc \in {"done", "failed"}

\* The transfers in flight: begun and not ended
InFlight == {i \in DOMAIN jobs.th : jobs.th[i].pc \in {"open", "sleep", "transfer"}}

\* _thread_jobs, lines 227-232: a thread is made for the next file and
\* started at once; pmkPutFiles / pmkGetFiles without threads, lines
\* 160-161 and 211-212: the next file is handled when the one before it is.
J_Start ==
    /\ jobs.pc = "start"
    /\ jobs.started < jobs.n
    /\ IF jobs.threaded \/ jobs.started = 0 THEN TRUE
       ELSE jobs.th[jobs.started].pc = "done"
    /\ jobs' = [jobs EXCEPT !.started = @ + 1,
                            !.th[jobs.started + 1].pc = "open",
                            !.th[jobs.started + 1].depth = 1]
    /\ UNCHANGED <<clusterVars, cmd, conn, last, sideVars, purge, cfg, put>>

\* Without threads the error of a file is the error of the batch.
J_Raise ==
    /\ jobs.pc = "start"
    /\ ~jobs.threaded
    /\ jobs.started >= 1
    /\ jobs.th[jobs.started].pc = "failed"
    /\ jobs' = [jobs EXCEPT !.pc = "raised",
                            !.err = jobs.th[jobs.started].err]
    /\ UNCHANGED <<clusterVars, cmd, conn, last, sideVars, purge, cfg, put>>

\* _thread_jobs, lines 233-234: every thread is joined; a thread that ended
\* with an error is joined like any other.
J_Join ==
    /\ jobs.pc = "start"
    /\ jobs.started = jobs.n
    /\ IF jobs.threaded THEN \A i \in DOMAIN jobs.th : TransferEnded(i)
       ELSE \A i \in DOMAIN jobs.th : jobs.th[i].pc = "done"
    /\ jobs' = [jobs EXCEPT !.pc = "done"]
    /\ UNCHANGED <<clusterVars, cmd, conn, last, sideVars, purge, cfg, put>>

\* pmkPutFile lines 139-147, pmkGetFile lines 193-201: client.open_sftp()
\* opens the channel, or the server refuses it ('Administratively
\* prohibited'), or it fails otherwise and the error is raised.
T_Open(i) ==
    /\ jobs.th[i].pc = "open"
    /\ \/ jobs' = [jobs EXCEPT !.th[i].pc = "transfer"]
       \/ jobs' = [jobs EXCEPT !.th[i].pc = "sleep"]
       \/ jobs' = [jobs EXCEPT !.th[i].pc = "failed", !.th[i].depth = 0,
                               !.th[i].err = "ChannelException"]
    /\ UNCHANGED <<clusterVars, cmd, conn, last, sideVars, purge, cfg, put>>

\* Lines 143-145 and 197-199: after sleep(1) the function calls itself for
\* the same pair, from inside the except clause; at the interpreter's limit
\* on nested calls the call raises RecursionError.
T_Retry(i) ==
    /\ jobs.th[i].pc = "sleep"
    /\ jobs' = IF jobs.th[i].depth >= RecursionLimit
               THEN [jobs EXCEPT !.th[i].pc = "failed", !.th[i].depth = 0,
                                 !.th[i].err = "RecursionError"]
               ELSE [jobs EXCEPT !.th[i].pc = "open", !.th[i].depth = @ + 1]
    /\ UNCHANGED <<clusterVars, cmd, conn, last, sideVars, purge, cfg, put>>

\* Lines 148-153 and 202-204: the directory of the destination is made and
\* the file is sent or fetched; put() or get() may raise.
T_Transfer(i) ==
    /\ jobs.th[i].pc = "transfer"
    /\ \/ jobs' = [jobs EXCEPT !.th[i].pc = "done", !.th[i].depth = 0,
                               !.th[i].sent = @ + 1]
       \/ jobs' = [jobs EXCEPT !.th[i].pc = "failed", !.th[i].depth = 0,
                               !.th[i].err = "IOError"]
    /\ UNCHANGED <<clusterVars, cmd, conn, last, sideVars, purge, cfg, put>>

JobsNext ==
    \/ J_Start
    \/ J_Raise
    \/ J_Join
    \/ \E i \in DOMAIN jobs.th : T_Open(i)
    \/ \E i \in DOMAIN jobs.th : T_Retry(i)
    \/ \E i \in DOMAIN jobs.th : T_Transfer(i)

SpecJobs == JobsInit /\ [][JobsNext]_vars

\* C19: during a batch put or get the number of transfers in flight never
\* exceeds the concurrency cap.
C19_InFlightWithinCap == Cardinality(InFlight) <= ConcurrencyCap

\* C20: a transfer whose channel is refused with 'Administratively
\* prohibited' pauses and is tried again, that one transfer alone, until the
\* channel opens; no other file is touched by the retry, no file is
\* transferred more than once, and any other channel error is raised at
\* once.
C20_ProhibitedRetriedAlone ==
    [][\A i \in DOMAIN jobs.th :
          LET a == jobs.th[i]
              b == jobs'.th[i]
          IN /\ (a.pc = "sleep" /\ b # a) => (b.pc = "open" /\ b.sent = a.sent)
             /\ (a.pc = "sleep" /\ b # a) =>
                   \A k \in DOMAIN jobs.th \ {i} : jobs'.th[k] = jobs.th[k]
             /\ b.sent <= 1
             /\ (a.err = "none" /\ b.err = "ChannelException") =>
                   (a.pc = "open" /\ b.pc = "failed")]_vars

\* The transfers of the batch that are at work on the client the batch was
\* given (put_data and get_data give the controller's manager_ssh): opening
\* a channel on it, or moving a file over it
SessionUsers ==
    {i \in DOMAIN jobs.th : jobs.th[i].pc \in {"open", "transfer"}}

\* C26: no two tasks that run at the same time use the same session; the
\* session a batch put or get was given (the manager's, for put_data and
\* get_data) is used by at most one task at a time.
C26_SessionUsedByOneTask == Cardinality(SessionUsers) <= 1

\* C34: a threaded batch put or get returns normally only if every transfer
\* of the batch completed; if a transfer fails, the failure is raised to
\* the caller of the batch.
C34_ThreadedBatchRaisesFailures ==
    (jobs.threaded /\ jobs.pc \in {"done", "raised"}) =>
        IF \E i \in DOMAIN jobs.th : jobs.th[i].pc = "failed"
        THEN jobs.pc = "raised" /\ jobs.err # "none"
        ELSE jobs.pc = "done" /\ \A i \in DOMAIN jobs.th : jobs.th[i].sent = 1

\* ---------------------------------------------------------- pmkPutFile alone
\* One call of pmkPutFile(client, source_fn, target_fn).  xfer.dirs is the
\* set of directories the remote side has, the root apart, each a path.

\* os.path.dirname(path)
Dirname(os, path) ==
    LET seps == {j \in 1..Len(path) : IsSep(os, path[j])}
    IN IF seps = {} THEN <<>>
       ELSE LET i == CHOOSE x \in seps : \A y \in seps : y <= x
                head == SubSeq(path, 1, i)
                kept == {j \in 1..i : ~IsSep(os, head[j])}
            IN IF kept = {} THEN head
               ELSE SubSeq(head, 1, CHOOSE x \in kept : \A y \in kept : y <= x)

\* The directories above a remote path, the root apart
RECURSIVE Ancestors(_)
Ancestors(path) ==
    LET d == Dirname("posix", path)
    IN IF d = <<>> \/ d = path \/ d = <<"/">> THEN {}
       ELSE {d} \cup Ancestors(d)

\* Whether the remote side has the directory
RemoteHas(dirs, d) == d = <<"/">> \/ d \in dirs

\* The destinations pmkPut makes for the files of a source directory
Destinations(os) ==
    {UnixPath(os, Target, JoinNames(Sep(os), f)) : f \in FilesUpTo(os, MaxDepth)}

PutFileInit ==
    /\ ClusterQuiet
    /\ cmd = NoCmd
    /\ conn = NoConn
    /\ last = NoLast
    /\ purge = NoPurge
    /\ cfg = NoCfg
    /\ put = NoPut
    /\ jobs = NoJobs
    /\ ami = NoAmi
    /\ get = NoGet
    /\ norm = NoNorm
    /\ \E os \in {"posix", "nt"} : \E target_fn \in Destinations(os) :
       \E dirs \in SUBSET Ancestors(target_fn) :
          /\ \A d \in dirs : Ancestors(d) \subseteq dirs
          /\ xfer = [pc |-> "open", os |-> os, dirs |-> dirs,
                     target_fn |-> target_fn, depth |-> 1, mkdir |-> "none",
                     sent |-> 0, err |-> "none"]

\* Lines 139-147: client.open_sftp() opens the channel, or the server
\* refuses it ('Administratively prohibited'), or it fails otherwise and the
\* error is raised.
F_Open ==
    /\ xfer.pc = "open"
    /\ \/ xfer' = [xfer EXCEPT !.pc = "mkdir"]
       \/ xfer' = [xfer EXCEPT !.pc = "sleep"]
       \/ xfer' = [xfer EXCEPT !.pc = "raised", !.depth = 0,
                               !.err = "ChannelException"]
    /\ UNCHANGED <<clusterVars, cmd, conn, last, purge, cfg, put, jobs, butXfer>>

\* Lines 143-145: after sleep(1) the function calls itself for the same
\* pair; at the interpreter's limit on nested calls the call raises
\* RecursionError.
F_Retry ==
    /\ xfer.pc = "sleep"
    /\ xfer' = IF xfer.depth >= RecursionLimit
               THEN [xfer EXCEPT !.pc = "raised", !.depth = 0,
                                 !.err = "RecursionError"]
               ELSE [xfer EXCEPT !.pc = "open", !.depth = @ + 1]
    /\ UNCHANGED <<clusterVars, cmd, conn, last, purge, cfg, put, jobs, butXfer>>

\* Lines 148-151: sftp_conn.mkdir(os.path.dirname(target_fn)) makes that one
\* directory.  The server answers with an error when the directory is there
\* already, when the directory above it is not there, or when it refuses
\* (no permission); paramiko raises each as IOError, which is OSError, and
\* the except clause passes over every one of them.
F_Mkdir ==
    /\ xfer.pc = "mkdir"
    /\ LET d == Dirname(xfer.os, xfer.target_fn)
       IN IF RemoteHas(xfer.dirs, d)
          THEN xfer' = [xfer EXCEPT !.pc = "put", !.mkdir = "exists"]
          ELSE IF ~RemoteHas(xfer.dirs, Dirname("posix", d))
          THEN xfer' = [xfer EXCEPT !.pc = "put", !.mkdir = "no_parent"]
          ELSE \/ xfer' = [xfer EXCEPT !.pc = "put", !.mkdir = "made",
                                       !.dirs = @ \cup {d}]
               \/ xfer' = [xfer EXCEPT !.pc = "put", !.mkdir = "denied"]
    /\ UNCHANGED <<clusterVars, cmd, conn, last, purge, cfg, put, jobs, butXfer>>

\* Line 153: sftp_conn.put(source_fn, target_fn) writes the remote file; it
\* raises IOError when the directory of the file is not there.
F_Put ==
    /\ xfer.pc = "put"
    /\ xfer' = IF RemoteHas(xfer.dirs, Dirname(xfer.os, xfer.target_fn))
               THEN [xfer EXCEPT !.pc = "done", !.depth = 0, !.sent = @ + 1]
               ELSE [xfer EXCEPT !.pc = "raised", !.depth = 0,
                                 !.err = "IOError"]
    /\ UNCHANGED <<clusterVars, cmd, conn, last, purge, cfg, put, jobs, butXfer>>

PutFileNext ==
    \/ F_Open
    \/ F_Retry
    \/ F_Mkdir
    \/ F_Put

SpecPutFile == PutFileInit /\ [][PutFileNext]_vars

\* C21: putting a file to a remote path whose destination directory is not
\* there makes that directory and then transfers the file, whatever the
\* path, the directory above the destination directory being there or not;
\* no error of making the directory other than "it is there already" is
\* passed over.
C21_PutFileMakesDirectory ==
    /\ xfer.pc \in {"put", "done", "raised"} /\ xfer.mkdir # "none" =>
          xfer.mkdir \in {"made", "exists"}
    /\ xfer.pc = "done" =>
          /\ RemoteHas(xfer.dirs, Dirname(xfer.os, xfer.target_fn))
          /\ xfer.sent = 1
    /\ (xfer.pc = "raised" /\ xfer.mkdir # "none") => xfer.err # "IOError"

\* ------------------------------------------------------------ _unixPath alone
\* One call of _unixPath(path) and a second call on what the first returned.

PathAlphabet == {"a", "/", Backslash}

Paths == UNION {[1..m -> PathAlphabet] : m \in 0..MaxPath}

NormInit ==
    /\ OthersQuiet
    /\ xfer = NoXfer
    /\ ami = NoAmi
    /\ get = NoGet
    /\ \E path \in Paths :
          norm = [pc |-> "new", path |-> path, out |-> <<>>, again |-> <<>>]

UnixPathCall ==
    /\ norm.pc = "new"
    /\ norm' = [norm EXCEPT !.pc = "done",
                            !.out = UnixPath1(norm.path),
                            !.again = UnixPath1(UnixPath1(norm.path))]
    /\ UNCHANGED <<clusterVars, cmd, conn, last, purge, cfg, put, jobs, butNorm>>

NormNext ==
    \/ UnixPathCall

SpecNorm == NormInit /\ [][NormNext]_vars

HasChar(path, c) == \E j \in 1..Len(path) : path[j] = c

\* C22: _unixPath turns every backslash of a path into a forward slash and
\* changes nothing else, so a path of backslashes alone and a mixed path
\* both become the forward-slash path; it leaves a path without backslashes
\* as it is; and applying it twice gives what applying it once gives.
C22_UnixPathNormalizes ==
    norm.pc = "done" =>
        /\ Len(norm.out) = Len(norm.path)
        /\ \A j \in 1..Len(norm.path) :
              norm.out[j] = (IF norm.path[j] \in {"/", Backslash} THEN "/"
                             ELSE norm.path[j])
        /\ ~HasChar(norm.out, Backslash)
        /\ (~HasChar(norm.path, Backslash) => norm.out = norm.path)
        /\ norm.again = norm.out

C22_Witness ==
    /\ norm.pc = "done"
    /\ HasChar(norm.path, Backslash)
    /\ HasChar(norm.path, "/")
    /\ norm.out # norm.path
    /\ norm.out = <<"a", "/", "/">>

\* ----------------------------------------------------------- create_ami alone
\* One call of create_ami(base, setup_fn, ver, update_image, terminate, wait)
\* on a new controller, and the create_instances calls made after it.
\* ami.base is the state of the base instance at the provider, ami.image the
\* state of the image the call registers ("ami-1"), ami.instance_conf the
\* controller's self.instance_conf.

\* 'available' in state, of line 323
AvailableOrNot(state) == TRUE
Available(state) == state = "available"

\* Lines 328-329
NewTemplateAlways(conf, update_image, image_id) ==
    [conf EXCEPT !.ImageId = image_id]
NewTemplate(conf, update_image, image_id) ==
    IF update_image THEN [conf EXCEPT !.ImageId = image_id] ELSE conf

\* create_instances lines 150-151: conf = self.instance_conf.copy();
\* conf.update(kwargs)
LaunchConf(conf, kwargs) ==
    [k \in DOMAIN conf \cup DOMAIN kwargs |->
        IF k \in DOMAIN kwargs THEN kwargs[k] ELSE conf[k]]

\* The keyword arguments the program's own calls of create_instances give
NoKwargs == [k \in {} |-> ""]
LaunchKwargs == {NoKwargs, [InstanceType |-> "m4.large"]}

AmiInit ==
    /\ OthersQuiet
    /\ xfer = NoXfer
    /\ get = NoGet
    /\ norm = NoNorm
    /\ \E base_given \in BOOLEAN : \E setup_fn \in BOOLEAN :
       \E update_image \in BOOLEAN : \E terminate \in BOOLEAN :
       \E wait \in BOOLEAN :
          ami = [NoAmi EXCEPT !.pc = "start", !.base_given = base_given,
                              !.setup_fn = setup_fn,
                              !.update_image = update_image,
                              !.terminate = terminate, !.wait = wait,
                              !.base = IF base_given THEN "running"
                                       ELSE "none"]

\* Lines 302-305: without a base, create_instances(1,
\* InstanceType='m4.large') launches one from the template; the launch may
\* raise with nothing launched, and the wait or the tagging inside
\* create_instances may raise with the instance launched.
A_Launch ==
    /\ ami.pc = "start"
    /\ IF ami.base_given
       THEN ami' = [ami EXCEPT !.pc = "setup"]
       ELSE \/ ami' = [ami EXCEPT !.pc = "raised", !.err = "LaunchError"]
            \/ ami' = [ami EXCEPT !.pc = "raised", !.err = "WaiterError",
                                  !.base = "running", !.launched = TRUE]
            \/ ami' = [ami EXCEPT !.pc = "setup", !.base = "running",
                                  !.launched = TRUE]
    /\ UNCHANGED <<clusterVars, cmd, conn, last, purge, cfg, put, jobs, butAmi>>

\* Lines 306-311: with a setup script, it is put on the base as setup.sh and
\* run with pmk_cmd, which raises when the exit status is not zero.
A_Setup ==
    /\ ami.pc = "setup"
    /\ IF ~ami.setup_fn
       THEN ami' = [ami EXCEPT !.pc = "create_image"]
       ELSE \E exit_status \in ExitStatuses :
               ami' = IF Failed(exit_status)
                      THEN [ami EXCEPT !.pc = "raised",
                                       !.err = "RemoteCommandError"]
                      ELSE [ami EXCEPT !.pc = "create_image"]
    /\ UNCHANGED <<clusterVars, cmd, conn, last, purge, cfg, put, jobs, butAmi>>

\* Lines 312-321: base.create_image registers the image, which is pending
\* at first, or raises (a name in use); base.wait_until_running().
A_CreateImage ==
    /\ ami.pc = "create_image"
    /\ \/ ami' = [ami EXCEPT !.pc = "poll", !.image = "pending"]
       \/ ami' = [ami EXCEPT !.pc = "raised", !.err = "ClientError"]
    /\ UNCHANGED <<clusterVars, cmd, conn, last, purge, cfg, put, jobs, butAmi>>

\* The provider: a pending image becomes available, or fails.
Img_Progress ==
    /\ ami.image = "pending"
    /\ \E state \in {"available", "failed"} :
          ami' = [ami EXCEPT !.image = state]
    /\ UNCHANGED <<clusterVars, cmd, conn, last, purge, cfg, put, jobs, butAmi>>

\* Lines 322-323: with wait, the state of the image is read and the loop
\* ends when it holds 'available'.
A_Poll ==
    /\ ami.pc = "poll"
    /\ ami' = IF ~ami.wait \/ Available(ami.image)
              THEN [ami EXCEPT !.pc = "finish"]
              ELSE [ami EXCEPT !.pc = "sleep"]
    /\ UNCHANGED <<clusterVars, cmd, conn, last, purge, cfg, put, jobs, butAmi>>

\* Lines 324-325: sleep(20), then the state is read again.
A_Sleep ==
    /\ ami.pc = "sleep"
    /\ ami' = [ami EXCEPT !.pc = "poll", !.slept = TRUE]
    /\ UNCHANGED <<clusterVars, cmd, conn, last, purge, cfg, put, jobs, butAmi>>

\* Lines 326-330: the base is terminated if asked, the template is given
\* the id of the image if asked, and the id is returned.
A_Finish ==
    /\ ami.pc = "finish"
    /\ ami' = [ami EXCEPT
                 !.pc = "returned",
                 !.base = IF ami.terminate THEN "terminated" ELSE @,
                 !.instance_conf = NewTemplate(@, ami.update_image, "ami-1"),
                 !.at_return = ami.image,
                 !.value = "ami-1"]
    /\ UNCHANGED <<clusterVars, cmd, conn, last, purge, cfg, put, jobs, butAmi>>

\* create_instances lines 150-158, called after create_ami returned: the
\* launch is made with the template as it stands, superseded by the keyword
\* arguments.  ami.launches keeps the image of each launch.
A_CreateInstances ==
    /\ ami.pc = "returned"
    /\ Len(ami.launches) < MaxCalls
    /\ \E kwargs \in LaunchKwargs :
          ami' = [ami EXCEPT !.launches =
                     Append(@, LaunchConf(ami.instance_conf, kwargs).ImageId)]
    /\ UNCHANGED <<clusterVars, cmd, conn, last, purge, cfg, put, jobs, butAmi>>

AmiNext ==
    \/ A_Launch
    \/ A_Setup
    \/ A_CreateImage
    \/ Img_Progress
    \/ A_Poll
    \/ A_Sleep
    \/ A_Finish
    \/ A_CreateInstances

SpecAmi == AmiInit /\ [][AmiNext]_vars

\* C23: with wait=True, create_ami returns, terminates the base instance and
\* rewrites the instance template only once the provider reports the image
\* available; the image is never pending when the call returns.
C23_WaitReturnsWhenAvailable ==
    [][(/\ ami.wait
        /\ \/ ami'.pc = "returned" /\ ami.pc # "returned"
           \/ ami'.base = "terminated" /\ ami.base # "terminated"
           \/ ami'.instance_conf # ami.instance_conf)
       => (/\ ami.image = "available"
           /\ ami'.image = "available"
           /\ ami'.at_return = "available")]_vars

C23_Witness ==
    /\ ami.pc = "returned"
    /\ ami.wait
    /\ ami.slept
    /\ ami.at_return = "available"
    /\ ami.base = "terminated"
    /\ ami.instance_conf.ImageId = "ami-1"

C25_SetupFailureLeavesNoImage ==
    (ami.pc = "raised" /\ ami.err = "RemoteCommandError") =>
        /\ ami.image = "none"
        /\ ami.instance_conf = InstanceConf
        /\ ami.value = "none"
        /\ ami.launched =>
              ami.base = (IF ami.terminate THEN "terminated" ELSE "running")

\* create_ami runs on: every statement of the call is reached in time, and
\* the provider settles the state of a pending image in time.
SpecAmiFair ==
    /\ AmiInit
    /\ [][AmiNext]_vars
    /\ WF_vars(A_Launch)
    /\ WF_vars(A_Setup)
    /\ WF_vars(A_CreateImage)
    /\ WF_vars(Img_Progress)
    /\ WF_vars(A_Poll)
    /\ WF_vars(A_Sleep)
    /\ WF_vars(A_Finish)

\* C35: create_ami with wait=True returns or raises in the end, whenever the
\* image leaves the pending state, be it to available or to failed.
C35_WaitEnds == ami.wait ~> (ami.pc \in {"returned", "raised"})

\* ------------------------------------------------- the lookups by tag alone
\* get_instances(ver), terminate_instances(ver) and the first step of
\* _ec2_purge(ec2_res, ver) on an account that holds instances of several
\* cluster versions, in any state, tagged by the controllers that launched
\* them and by others.

\* another cluster version
OtherVer == "0.2.20"
Versions == {Ver, OtherVer}

\* The tags an instance can carry: none (launched, not tagged yet), the
\* tag create_instances gives it, with it the tag create_cluster gives a
\* manager, and a tag from elsewhere (a Name, a note) whose value is a
\* version
TagSets ==
    {own \cup note :
        own \in {NoTags} \cup {{<<"rcluster", v>>} : v \in Versions}
                \cup {{<<"rcluster", v>>, <<v, "manager">>} : v \in Versions},
        note \in {NoTags, {<<"Name", Ver>>}}}

\* The values of ver the lookups are called with
LookupVersions == Versions \cup {"manager"}

Accounts ==
    UNION {[1..m -> [state : {"pending", "running", "terminated"},
                     tags : TagSets]] : m \in 0..MaxAccount}

FilterInit ==
    /\ inst \in Accounts
    /\ rcluster = <<>>
    /\ hostfile = <<>>
    /\ manager_private = 0
    /\ manager_ssh = 0
    /\ worker_runtime = FALSE
    /\ manager_runtime = FALSE
    /\ pc = "idle"
    /\ call = NoCall
    /\ task = <<>>
    /\ hostfile_lock = 0
    /\ result = NoResult
    /\ calls = 0
    /\ hist = NoHist
    /\ cmd = NoCmd
    /\ conn = NoConn
    /\ LaterQuiet

\* _ec2_purge lines 390-398: the instances the filter gives are terminated
\* one after the other; the steps after it touch no instance.
PurgeInstancesFor(ver) ==
    /\ pc = "idle"
    /\ LET instances == InstancesByFilter(inst, "rcluster", ver)
       IN \E done \in 0..Len(instances) :
           /\ inst' = Terminated(inst, {instances[m] : m \in 1..done})
           /\ last' = CallRecordOf("purge", ver,
                                   IF done = Len(instances) THEN "returned"
                                   ELSE "raised",
                                   "none", SubSeq(instances, 1, done))
    /\ UNCHANGED <<rcluster, hostfile, manager_private, manager_ssh,
                   worker_runtime, manager_runtime, pc, call, task,
                   hostfile_lock, result, calls, hist, cmd, conn, offVars>>

FilterNext ==
    \/ \E ver \in LookupVersions : GetInstancesFor(ver)
    \/ \E ver \in LookupVersions : TerminateInstancesFor(ver)
    \/ \E ver \in LookupVersions : PurgeInstancesFor(ver)

SpecFilter == FilterInit /\ [][FilterNext]_vars

\* The instance carries the fleet tag of the version and is running or
\* pending
OfVersionAndLive(table, i, ver) ==
    /\ <<"rcluster", ver>> \in table[i].tags
    /\ IsLive(table[i].state)

\* C27: get_instances(V), terminate_instances(V) and purge(V) select only
\* instances whose tag 'rcluster' is V and whose state is running or
\* pending: no instance of another version, and no terminated one, is
\* returned or terminated.
C27_OnlyTheVersionsLiveInstances ==
    [][(last' # last \/ inst' # inst) =>
          /\ \A j \in 1..Len(last'.value) :
                OfVersionAndLive(inst, last'.value[j], last'.ver)
          /\ \A i \in DOMAIN inst :
                inst'[i] # inst[i] => OfVersionAndLive(inst, i, last'.ver)]_vars

\* ------------------------------------------ pmkGet, and pmkPut of one source
\* One call of pmkGet(client, source, target) and one of pmkPut(client,
\* source, target) on the same machine.  get.kind says what the remote side
\* has at the source of the get: a directory with the regular files of
\* get.tree, a regular file, or nothing; get.local_isfile whether the local
\* machine has a regular file at a path spelled like that source.

\* the source and the target a get is given
GetSource == <<"/", "s">>
GetTarget == <<"l">>

\* pmkWalk lines 89-92: the directory of a remote file is the source joined
\* with the names that lead to it, one _unixPath at a time
RECURSIVE RemoteWalkRoot(_, _, _)
RemoteWalkRoot(os, top, dirs) ==
    IF dirs = <<>> THEN top
    ELSE RemoteWalkRoot(os, UnixPath(os, top, dirs[1]), Tail(dirs))

\* _filesFromWalk(pmkWalk(sftp_conn, source)), line 180
RemoteFilesFromWalk(os, source, tree) ==
    [j \in 1..Cardinality(tree) |->
        LET f == SetToSeq(tree)[j]
        IN UnixPath(os, RemoteWalkRoot(os, source, SubSeq(f, 1, Len(f) - 1)),
                    f[Len(f)])]

\* pmkGet, lines 178-185: the (source, destination) pairs, for a source the
\* remote side has
GetFiles(os, kind, local_isfile, source, target, tree) ==
    (IF kind = "dir"
     THEN LET found == RemoteFilesFromWalk(os, source, tree)
          IN [j \in 1..Len(found) |->
                [source_fn |-> found[j],
                 target_fn |-> OsPathJoin(os, target,
                                          RelPath(os, found[j], source))]]
     ELSE <<>>)
    \o (IF local_isfile
        THEN <<[source_fn |-> source, target_fn |-> target]>>
        ELSE <<>>)

GetInit ==
    /\ ClusterQuiet
    /\ cmd = NoCmd
    /\ conn = NoConn
    /\ last = NoLast
    /\ purge = NoPurge
    /\ cfg = NoCfg
    /\ jobs = NoJobs
    /\ xfer = NoXfer
    /\ ami = NoAmi
    /\ norm = NoNorm
    /\ \E os \in {"posix", "nt"} : \E local_isfile \in BOOLEAN :
          /\ \E kind \in {"file", "missing"} :
                put = [pc |-> "new", os |-> os, kind |-> kind,
                       tree |-> {}, send_files |-> <<>>]
          /\ \/ \E tree \in Trees("posix") :
                   get = [NoGet EXCEPT !.pc = "new", !.os = os,
                                       !.kind = "dir", !.tree = tree,
                                       !.local_isfile = local_isfile]
             \/ \E kind \in {"file", "missing"} :
                   get = [NoGet EXCEPT !.pc = "new", !.os = os,
                                       !.kind = kind,
                                       !.local_isfile = local_isfile]

\* pmkGet(client, source, target), lines 164-186, up to the list it hands
\* to pmkGetFiles: client.open_sftp() may raise; sftp_conn.lstat(source)
\* raises IOError when the remote side has nothing at source.
PmkGet ==
    /\ get.pc = "new"
    /\ \/ get' = [get EXCEPT !.pc = "raised", !.err = "ChannelException"]
       \/ get' = IF get.kind = "missing"
                 THEN [get EXCEPT !.pc = "raised", !.err = "IOError"]
                 ELSE [get EXCEPT !.pc = "done",
                                  !.get_files =
                                      GetFiles(get.os, get.kind,
                                               get.local_isfile, GetSource,
                                               GetTarget, get.tree)]
    /\ UNCHANGED <<clusterVars, cmd, conn, last, purge, cfg, put, jobs, butGet>>

GetNext ==
    \/ PmkGet
    \/ PmkPut

SpecGet == GetInit /\ [][GetNext]_vars

\* C30: a batch put and a batch get of a source that does not exist do
\* nothing: no file is transferred and no error is raised.
C30_MissingSourceDoesNothing ==
    /\ (put.kind = "missing" /\ put.pc # "new") =>
          (put.pc = "done" /\ put.send_files = <<>>)
    /\ (get.kind = "missing" /\ get.pc # "new" /\ get.err # "ChannelException")
          => (get.pc = "done" /\ get.get_files = <<>> /\ get.err = "none")

\* C36: a get whose source is a regular file on the remote side fetches that
\* file to the target, whether or not the local machine has a file at the
\* same path.
C36_RemoteFileIsFetched ==
    (get.kind = "file" /\ get.pc = "done") =>
        get.get_files = <<[source_fn |-> GetSource, target_fn |-> GetTarget]>>
====
